---- MODULE Spec2Model ----
(***************************************************************************)
(* Model of cloudflare_waf.py: a command-line manager of Cloudflare WAF    *)
(* custom rules (credentials file, zone listing, backup / restore / apply  *)
(* of a zone's custom-firewall ruleset).                                   *)
(*                                                                         *)
(* The program is sequential.  One action models one code segment that     *)
(* ends with an HTTP exchange (request and JSON response together) or with *)
(* a return.  The Cloudflare API is the environment: every response        *)
(* carries success = TRUE or FALSE, chosen by the server.  Transport       *)
(* failures (no JSON response at all) are not modelled.                    *)
(*                                                                         *)
(* Line 40 of the source nests double quotes inside an f-string, which is  *)
(* a SyntaxError before Python 3.12 (the module then does not load at all) *)
(* and valid from 3.12 on (PEP 701).  The model is of the program as it    *)
(* runs under Python >= 3.12.                                              *)
(*                                                                         *)
(* Strings that the program takes apart (the selection typed by the user,  *)
(* the keys "1", "2", ... of the zone mapping) are sequences of one-       *)
(* character strings.  A file's JSON text is a sequence of tokens.         *)
(***************************************************************************)
EXTENDS Integers, Sequences, FiniteSets, TLC

\* ------------------------------------------------------------------ bounds

\* Longest rule list of a ruleset or of rules.json.
MaxRules == 2

\* Longest selection line typed at the prompt, in characters.
MaxInput == 4

\* ---------------------------------------------------------------- universe

ZoneIds == {"z1", "z2"}

Rule == {"a", "b"}

Char == {"1", "2", " ", ","}

RECURSIVE SeqsUpTo(_, _)
SeqsUpTo(S, n) ==
    IF n = 0 THEN {<<>>}
    ELSE LET shorter == SeqsUpTo(S, n - 1)
         IN shorter \cup {Append(s, x) : s \in {t \in shorter : Len(t) = n - 1}, x \in S}

RuleLists == SeqsUpTo(Rule, MaxRules)

Inputs == SeqsUpTo(Char, MaxInput)

Range(s) == {s[i] : i \in DOMAIN s}

\* Sequences of distinct zone ids: what the zones endpoint can return.
ZoneOrders == {s \in SeqsUpTo(ZoneIds, Cardinality(ZoneIds)) : Cardinality(Range(s)) = Len(s)}

\* Python's None for a ruleset id (falsy).
None == "None"

NoFile == <<>>

\* The ruleset ids the server assigned.
CustomId(z) == IF z = "z1" THEN "cf1" ELSE "cf2"

ZoneName(z) == IF z = "z1" THEN "one.example" ELSE "two.example"

\* ------------------------------------------------------------------- state

VARIABLES
    \* the Cloudflare account (environment)
    account,            \* zone ids in the order the zones endpoint returns them
    custom,             \* zone -> [exists, rules]: its custom-firewall ruleset
    \* the local filesystem
    config,             \* cloudflare_config.json exists
    rulesFile,          \* rules.json: [exists, content]
    backups,            \* zone -> JSON text of backups/zone_<id>.json, NoFile when absent
    \* the process
    pc,                 \* position: "idle" (returned), a code segment, "exited", "crashed"
    stack,              \* return positions of the calls in progress
    zone_id,            \* parameter of the running operation
    waf_rules,          \* apply_waf_rules: the loaded list
    ruleset_id,         \* local of backup / restore / apply / get_ruleset_id
    backup_data,        \* restore_waf_rules: the loaded backup
    zones,              \* list_zones: the returned mapping, key -> zone id
    msg,                \* the last line printed
    \* main()
    cmd,                \* the branch main() took
    selection,          \* the typed line, split at ","
    selected_zone_ids,
    idx,                \* how many of selected_zone_ids the for loop has taken
    \* history, for stating the properties
    op,                 \* the operation called last (directly or by main's loop)
    apiLog,             \* HTTP exchanges of that call
    pre,                \* [ruleset, backup] of its zone when it was called
    wrote,              \* it wrote a backup file
    prev,               \* the call before it, when that was a backup
    lzResp,             \* list_zones: the response it got
    calls               \* main's loop: the zones it has called the operation on

vars == <<account, custom, config, rulesFile, backups, pc, stack, zone_id, waf_rules,
          ruleset_id, backup_data, zones, msg, cmd, selection, selected_zone_ids, idx,
          op, apiLog, pre, wrote, prev, lzResp, calls>>

serverVars == <<account, custom>>
fileVars == <<config, rulesFile, backups>>
mainVars == <<cmd, selection, selected_zone_ids, idx, calls>>

\* ------------------------------------------------------- pure functions

\* str(i) for i >= 0: the decimal numeral, one character per digit.
Digit == <<"0", "1", "2", "3", "4", "5", "6", "7", "8", "9">>

RECURSIVE Str(_)
Str(i) == IF i < 10 THEN <<Digit[i + 1]>> ELSE Str(i \div 10) \o <<Digit[(i % 10) + 1]>>

\* s.split(","): the pieces between the commas, empty pieces included.
RECURSIVE SplitComma(_)
SplitComma(s) ==
    LET commas == {i \in DOMAIN s : s[i] = ","}
    IN IF commas = {} THEN <<s>>
       ELSE LET i == CHOOSE j \in commas : \A k \in commas : j <= k
            IN <<SubSeq(s, 1, i - 1)>> \o SplitComma(SubSeq(s, i + 1, Len(s)))

\* s.strip(): leading and trailing whitespace removed.
RECURSIVE LStrip(_)
LStrip(s) == IF s # <<>> /\ Head(s) = " " THEN LStrip(Tail(s)) ELSE s

RECURSIVE RStrip(_)
RStrip(s) == IF s # <<>> /\ s[Len(s)] = " " THEN RStrip(SubSeq(s, 1, Len(s) - 1)) ELSE s

StripNot(s) == s

Strip(s) == RStrip(LStrip(s))

\* [zones[num.strip()] for num in selection if num.strip() in zones]
SelectedZoneIds(sel, zs) ==
    LET kept == SelectSeq(sel, LAMBDA num : Strip(num) \in DOMAIN zs)
    IN [k \in 1..Len(kept) |-> zs[Strip(kept[k])]]

\* {str(i): z["id"] for i, z in enumerate(zones, start=1)}, or {} on failure.
ZoneMappingFromZero(resp) ==
    IF resp.success
    THEN LET n == Len(resp.result)
         IN [k \in {Str(i - 1) : i \in 1..n} |->
                resp.result[CHOOSE i \in 1..n : Str(i - 1) = k].id]
    ELSE <<>>

ZoneMapping(resp) ==
    IF resp.success
    THEN LET n == Len(resp.result)
         IN [k \in {Str(i) : i \in 1..n} |->
                resp.result[CHOOSE i \in 1..n : Str(i) = k].id]
    ELSE <<>>

\* json.dump of a successful "get ruleset" response: the text of a backup file.
JsonDump(resp) ==
    <<"success", IF resp.success THEN "true" ELSE "false",
      "id", resp.result.id, "kind", resp.result.kind, "phase", resp.result.phase,
      "rules">> \o resp.result.rules

\* json.load of a backup file's text.
JsonLoad(text) ==
    IF Len(text) >= 9
    THEN [success |-> text[2] = "true",
          result |-> [id |-> text[4], kind |-> text[6], phase |-> text[8],
                      rules |-> SubSeq(text, 10, Len(text))]]
    ELSE [success |-> FALSE, result |-> [id |-> None, kind |-> "", phase |-> "", rules |-> <<>>]]

\* load_waf_rules(): [] when rules.json is missing, else its content.
LoadWafRules == IF rulesFile.exists THEN rulesFile.content ELSE <<>>

\* `not waf_rules`
NoRulesNever(rules) == FALSE

NoRules(rules) == rules = <<>>

\* os.path.exists(CONFIG_FILE) in load_config
ConfigFoundAlways == TRUE

ConfigFound == config

\* os.path.exists(backup_path) in restore_waf_rules
BackupFoundAlways(z) == TRUE

BackupFound(z) == backups[z] # NoFile

\* data = {"rules": waf_rules}
ApplyDataMerged(rules) == [rules |-> custom[zone_id].rules \o rules]

ApplyData(rules) == [rules |-> rules]

\* {"rules": backup_data.get("result", {}).get("rules", [])}
RestoreDataEmpty(data) == [rules |-> <<>>]

RestoreData(data) == [rules |-> data.result.rules]

\* --------------------------------------------------------- the API server

CustomPhase == "http_request_firewall_custom"

NoResult == <<>>

\* GET zones?account.id=...
ZonesResponse(ok) ==
    IF ok
    THEN [success |-> TRUE,
          result |-> [i \in 1..Len(account) |->
                         [id |-> account[i], name |-> ZoneName(account[i])]]]
    ELSE [success |-> FALSE, result |-> NoResult]

\* GET zones/<z>/rulesets: the zone's rulesets, the custom-firewall one (when the
\* zone has it) among rulesets of other kinds and phases.
RulesetsResponse(z, ok) ==
    IF ok
    THEN [success |-> TRUE,
          result |-> <<[id |-> "mg", kind |-> "managed", phase |-> "http_request_firewall_managed"],
                       [id |-> "rl", kind |-> "zone", phase |-> "http_ratelimit"]>>
                     \o (IF custom[z].exists
                         THEN <<[id |-> CustomId(z), kind |-> "zone", phase |-> CustomPhase]>>
                         ELSE <<>>)]
    ELSE [success |-> FALSE, result |-> NoResult]

\* GET zones/<z>/rulesets/<rid>
RulesetResponse(z, rid, ok) ==
    IF ok /\ custom[z].exists /\ rid = CustomId(z)
    THEN [success |-> TRUE,
          result |-> [id |-> rid, kind |-> "zone", phase |-> CustomPhase,
                      rules |-> custom[z].rules]]
    ELSE [success |-> FALSE, result |-> NoResult]

\* PUT zones/<z>/rulesets/<rid> is accepted: the ruleset's rule list becomes the body's.
PutAccepted(z, rid, ok) == ok /\ custom[z].exists /\ rid = CustomId(z)

\* get_ruleset_id: the id of the first zone-kind ruleset of the custom-firewall phase.
get_ruleset_id(resp) ==
    IF resp.success
    THEN LET hits == {i \in DOMAIN resp.result :
                         resp.result[i].kind = "zone" /\ resp.result[i].phase = CustomPhase}
         IN IF hits = {} THEN None
            ELSE resp.result[CHOOSE i \in hits : \A j \in hits : i <= j].id
    ELSE None

\* One HTTP exchange, as the history records it.
Req(method, path, z, rid, body, ok) ==
    [method |-> method, path |-> path, zone |-> z, rid |-> rid, body |-> body, ok |-> ok]

\* ----------------------------------------------------------- the process

Stopped == pc \in {"idle", "exited", "crashed"}

NoRuleset == [exists |-> FALSE, rules |-> <<>>]

NoPrev == [op |-> "none", zone |-> "z1", ruleset |-> NoRuleset, wrote |-> FALSE]

NoResponse == [success |-> FALSE, result |-> NoResult]

\* A fresh call of an operation: what the history keeps of it.  Only a backup is
\* remembered once the next call has begun.
Begin(o, z) ==
    /\ op' = o
    /\ zone_id' = z
    /\ apiLog' = <<>>
    /\ pre' = [ruleset |-> custom[z], backup |-> backups[z]]
    /\ wrote' = FALSE
    /\ prev' = IF op = "backup"
               THEN [op |-> op, zone |-> zone_id, ruleset |-> pre.ruleset, wrote |-> wrote]
               ELSE NoPrev

histVars == <<op, zone_id, apiLog, pre, wrote, prev>>

localVars == <<waf_rules, ruleset_id, backup_data>>

NoData == JsonLoad(NoFile)

\* return: back to the caller's position.
Return(stk) ==
    /\ pc' = Head(stk)
    /\ stack' = Tail(stk)

\* load_config() without a credential file: exit(1).
Exit ==
    /\ pc' = "exited"
    /\ stack' = <<>>
    /\ msg' = "Error: API credentials not found. Please run with --setup flag."
    /\ UNCHANGED <<serverVars, fileVars, histVars, localVars, zones, lzResp, mainVars>>

\* An operation that calls nothing and returns.
NoCall ==
    /\ pc' = "idle"
    /\ stack' = <<>>
    /\ waf_rules' = <<>>
    /\ ruleset_id' = None
    /\ backup_data' = NoData

\* list_zones(), up to its call of load_config.
ListZonesEntry(stk) ==
    /\ pc' = "list_zones"
    /\ stack' = stk
    /\ waf_rules' = <<>>
    /\ ruleset_id' = None
    /\ backup_data' = NoData
    /\ msg' = ""

\* get_ruleset_id(zone_id), up to its request.
GetRulesetIdEntry(stk) ==
    /\ pc' = "get_ruleset_id"
    /\ stack' = stk
    /\ waf_rules' = <<>>
    /\ ruleset_id' = None
    /\ backup_data' = NoData
    /\ msg' = ""

\* backup_waf_rules(zone_id), up to the request of its get_ruleset_id.
BackupEntry(stk) ==
    /\ pc' = "backup_get_id"
    /\ stack' = stk
    /\ waf_rules' = <<>>
    /\ ruleset_id' = None
    /\ backup_data' = NoData
    /\ msg' = ""

\* restore_waf_rules(zone_id), up to the request of its get_ruleset_id.
RestoreEntry(z, stk) ==
    /\ waf_rules' = <<>>
    /\ ruleset_id' = None
    /\ IF ~BackupFound(z)
       THEN /\ msg' = "No backup found"
            /\ backup_data' = NoData
            /\ Return(stk)
       ELSE /\ backup_data' = JsonLoad(backups[z])
            /\ pc' = "restore_get_id"
            /\ stack' = stk
            /\ msg' = ""

\* apply_waf_rules(zone_id), up to the request of backup_waf_rules' get_ruleset_id.
ApplyEntry(stk) ==
    /\ waf_rules' = LoadWafRules
    /\ ruleset_id' = None
    /\ backup_data' = NoData
    /\ IF NoRules(LoadWafRules)
       THEN /\ msg' = "No WAF rules found. Please add rules to rules.json."
            /\ Return(stk)
       ELSE /\ pc' = "backup_get_id"
            /\ stack' = <<"apply_get_id">> \o stk
            /\ msg' = ""

\* list_zones(): the request and the mapping built from the response.
ListZonesStep ==
    /\ pc = "list_zones"
    /\ IF ~ConfigFound
       THEN Exit
       ELSE \E ok \in BOOLEAN :
              LET resp == ZonesResponse(ok)
              IN /\ apiLog' = Append(apiLog, Req("GET", "zones", "", None, <<>>, resp.success))
                 /\ lzResp' = resp
                 /\ zones' = ZoneMapping(resp)
                 /\ msg' = IF resp.success THEN "zones listed" ELSE "Error fetching zones"
                 /\ Return(stack)
                 /\ UNCHANGED <<serverVars, fileVars, op, zone_id, pre, wrote, prev,
                                localVars, mainVars>>

\* get_ruleset_id(zone_id) called on its own.
GetRulesetIdStep ==
    /\ pc = "get_ruleset_id"
    /\ IF ~ConfigFound
       THEN Exit
       ELSE \E ok \in BOOLEAN :
              LET resp == RulesetsResponse(zone_id, ok)
              IN /\ apiLog' = Append(apiLog, Req("GET", "rulesets", zone_id, None, <<>>, resp.success))
                 /\ ruleset_id' = get_ruleset_id(resp)
                 /\ Return(stack)
                 /\ UNCHANGED <<serverVars, fileVars, op, zone_id, pre, wrote, prev,
                                waf_rules, backup_data, zones, lzResp, msg, mainVars>>

\* backup_waf_rules, lines 83-86: resolve the ruleset, skip the backup without one.
BackupGetId ==
    /\ pc = "backup_get_id"
    /\ IF ~ConfigFound
       THEN Exit
       ELSE \E ok \in BOOLEAN :
              LET resp == RulesetsResponse(zone_id, ok)
                  rid == get_ruleset_id(resp)
              IN /\ apiLog' = Append(apiLog, Req("GET", "rulesets", zone_id, None, <<>>, resp.success))
                 /\ ruleset_id' = rid
                 /\ IF rid = None
                    THEN /\ msg' = "No existing ruleset found. Skipping backup."
                         /\ Return(stack)
                    ELSE /\ pc' = "backup_fetch"
                         /\ UNCHANGED <<stack, msg>>
                 /\ UNCHANGED <<serverVars, fileVars, op, zone_id, pre, wrote, prev,
                                waf_rules, backup_data, zones, lzResp, mainVars>>

\* backup_waf_rules, lines 88-97: fetch the ruleset, write the response to the file.
BackupFetch ==
    /\ pc = "backup_fetch"
    /\ IF ~ConfigFound
       THEN Exit
       ELSE \E ok \in BOOLEAN :
              LET resp == RulesetResponse(zone_id, ruleset_id, ok)
              IN /\ apiLog' = Append(apiLog, Req("GET", "ruleset", zone_id, ruleset_id, <<>>, resp.success))
                 /\ IF resp.success
                    THEN /\ backups' = [backups EXCEPT ![zone_id] = JsonDump(resp)]
                         /\ wrote' = TRUE
                         /\ msg' = "Backup saved"
                    ELSE /\ msg' = "Failed to backup WAF rules"
                         /\ UNCHANGED <<backups, wrote>>
                 /\ Return(stack)
                 /\ UNCHANGED <<serverVars, config, rulesFile, op, zone_id, pre, prev,
                                localVars, zones, lzResp, mainVars>>

\* restore_waf_rules, lines 111-114.
RestoreGetId ==
    /\ pc = "restore_get_id"
    /\ IF ~ConfigFound
       THEN Exit
       ELSE \E ok \in BOOLEAN :
              LET resp == RulesetsResponse(zone_id, ok)
                  rid == get_ruleset_id(resp)
              IN /\ apiLog' = Append(apiLog, Req("GET", "rulesets", zone_id, None, <<>>, resp.success))
                 /\ ruleset_id' = rid
                 /\ IF rid = None
                    THEN /\ msg' = "No existing ruleset found. Cannot restore."
                         /\ Return(stack)
                    ELSE /\ pc' = "restore_put"
                         /\ UNCHANGED <<stack, msg>>
                 /\ UNCHANGED <<serverVars, fileVars, op, zone_id, pre, wrote, prev,
                                waf_rules, backup_data, zones, lzResp, mainVars>>

\* restore_waf_rules, lines 116-122: PUT the backup's rule list.
RestorePut ==
    /\ pc = "restore_put"
    /\ IF ~ConfigFound
       THEN Exit
       ELSE \E ok \in BOOLEAN :
              LET data == RestoreData(backup_data)
                  accepted == PutAccepted(zone_id, ruleset_id, ok)
              IN /\ apiLog' = Append(apiLog, Req("PUT", "ruleset", zone_id, ruleset_id, data.rules, accepted))
                 /\ custom' = IF accepted THEN [custom EXCEPT ![zone_id].rules = data.rules]
                              ELSE custom
                 /\ msg' = IF accepted THEN "Successfully restored WAF rules"
                           ELSE "Failed to restore WAF rules"
                 /\ Return(stack)
                 /\ UNCHANGED <<account, fileVars, op, zone_id, pre, wrote, prev,
                                localVars, zones, lzResp, mainVars>>

\* apply_waf_rules, lines 144-151.  create_ruleset is defined nowhere in the
\* program: calling it raises NameError, which nothing catches.
ApplyGetId ==
    /\ pc = "apply_get_id"
    /\ IF ~ConfigFound
       THEN Exit
       ELSE \E ok \in BOOLEAN :
              LET resp == RulesetsResponse(zone_id, ok)
                  rid == get_ruleset_id(resp)
              IN /\ apiLog' = Append(apiLog, Req("GET", "rulesets", zone_id, None, <<>>, resp.success))
                 /\ ruleset_id' = rid
                 /\ IF rid = None
                    THEN /\ msg' = "NameError: name 'create_ruleset' is not defined"
                         /\ pc' = "crashed"
                         /\ stack' = <<>>
                    ELSE /\ pc' = "apply_put"
                         /\ UNCHANGED <<stack, msg>>
                 /\ UNCHANGED <<serverVars, fileVars, op, zone_id, pre, wrote, prev,
                                waf_rules, backup_data, zones, lzResp, mainVars>>

\* apply_waf_rules, lines 153-160: PUT the loaded rules.
ApplyPut ==
    /\ pc = "apply_put"
    /\ IF ~ConfigFound
       THEN Exit
       ELSE \E ok \in BOOLEAN :
              LET data == ApplyData(waf_rules)
                  accepted == PutAccepted(zone_id, ruleset_id, ok)
              IN /\ apiLog' = Append(apiLog, Req("PUT", "ruleset", zone_id, ruleset_id, data.rules, accepted))
                 /\ custom' = IF accepted THEN [custom EXCEPT ![zone_id].rules = data.rules]
                              ELSE custom
                 /\ msg' = IF accepted THEN "Successfully updated WAF rules"
                           ELSE "Failed to update WAF rules"
                 /\ Return(stack)
                 /\ UNCHANGED <<account, fileVars, op, zone_id, pre, wrote, prev,
                                localVars, zones, lzResp, mainVars>>

\* ------------------------------------------- operations called directly

CallListZones ==
    /\ Stopped
    /\ Begin("list_zones", zone_id)
    /\ ListZonesEntry(<<"idle">>)
    /\ zones' = <<>>
    /\ lzResp' = NoResponse
    /\ UNCHANGED <<serverVars, fileVars, mainVars>>

CallGetRulesetId(z) ==
    /\ Stopped
    /\ Begin("get_ruleset_id", z)
    /\ GetRulesetIdEntry(<<"idle">>)
    /\ zones' = <<>>
    /\ lzResp' = NoResponse
    /\ UNCHANGED <<serverVars, fileVars, mainVars>>

CallBackup(z) ==
    /\ Stopped
    /\ Begin("backup", z)
    /\ BackupEntry(<<"idle">>)
    /\ zones' = <<>>
    /\ lzResp' = NoResponse
    /\ UNCHANGED <<serverVars, fileVars, mainVars>>

CallRestore(z) ==
    /\ Stopped
    /\ Begin("restore", z)
    /\ RestoreEntry(z, <<"idle">>)
    /\ zones' = <<>>
    /\ lzResp' = NoResponse
    /\ UNCHANGED <<serverVars, fileVars, mainVars>>

CallApply(z) ==
    /\ Stopped
    /\ Begin("apply", z)
    /\ ApplyEntry(<<"idle">>)
    /\ zones' = <<>>
    /\ lzResp' = NoResponse
    /\ UNCHANGED <<serverVars, fileVars, mainVars>>

\* setup_credentials(): save_config writes the credential file.
SetupCredentials ==
    /\ Stopped
    /\ Begin("setup", zone_id)
    /\ NoCall
    /\ config' = TRUE
    /\ msg' = "Credentials saved successfully."
    /\ zones' = <<>>
    /\ lzResp' = NoResponse
    /\ UNCHANGED <<serverVars, rulesFile, backups, mainVars>>

\* delete_credentials()
DeleteCredentials ==
    /\ Stopped
    /\ Begin("clear", zone_id)
    /\ NoCall
    /\ config' = FALSE
    /\ msg' = IF config THEN "Credentials deleted successfully." ELSE "No credentials found."
    /\ zones' = <<>>
    /\ lzResp' = NoResponse
    /\ UNCHANGED <<serverVars, rulesFile, backups, mainVars>>

\* ------------------------------------------------------------------ main()

Flags == {"setup", "list_zones", "apply_rules", "restore", "clear"}

\* The if / elif chain of main(): the first flag set, in this order.
Branch(args) ==
    IF "setup" \in args THEN "setup"
    ELSE IF "list_zones" \in args THEN "list_zones"
    ELSE IF "apply_rules" \in args THEN "apply_rules"
    ELSE IF "restore" \in args THEN "restore"
    ELSE IF "clear" \in args THEN "clear"
    ELSE "help"

\* main(), lines 183-197 / 204 / 211 / 213: parse the flags, take the branch.
MainDispatch ==
    /\ Stopped
    /\ \E args \in SUBSET Flags :
         LET b == Branch(args)
         IN /\ cmd' = b
            /\ selection' = <<>>
            /\ selected_zone_ids' = <<>>
            /\ idx' = 0
            /\ calls' = <<>>
            /\ IF b \in {"list_zones", "apply_rules", "restore"}
               THEN /\ Begin("list_zones", zone_id)
                    /\ ListZonesEntry(IF b = "list_zones" THEN <<"idle">> ELSE <<"main_select">>)
                    /\ UNCHANGED config
               ELSE /\ Begin(b, zone_id)
                    /\ NoCall
                    /\ config' = IF b = "setup" THEN TRUE ELSE IF b = "clear" THEN FALSE ELSE config
                    /\ msg' = IF b = "setup" THEN "Credentials saved successfully."
                              ELSE IF b = "clear"
                              THEN (IF config THEN "Credentials deleted successfully."
                                    ELSE "No credentials found.")
                              ELSE "usage"
    /\ zones' = <<>>
    /\ lzResp' = NoResponse
    /\ UNCHANGED <<serverVars, rulesFile, backups>>

\* main(), lines 198-200 / 205-207: the prompt and the selected zone ids.
MainSelect ==
    /\ pc = "main_select"
    /\ IF DOMAIN zones = {}
       THEN /\ pc' = "idle"
            /\ UNCHANGED <<selection, selected_zone_ids>>
       ELSE \E line \in Inputs :
              /\ selection' = SplitComma(line)
              /\ selected_zone_ids' = SelectedZoneIds(SplitComma(line), zones)
              /\ pc' = "main_loop"
    /\ UNCHANGED <<serverVars, fileVars, stack, histVars, localVars, zones, msg, cmd,
                   idx, calls, lzResp>>

\* main(), lines 201-202 / 208-209: the for loop's next call.  Nothing reads
\* `selection` after line 200 / 207: the model forgets it here.
MainLoop ==
    /\ pc = "main_loop"
    /\ selection' = <<>>
    /\ IF idx < Len(selected_zone_ids)
       THEN LET z == selected_zone_ids[idx + 1]
            IN /\ idx' = idx + 1
               /\ calls' = Append(calls, z)
               /\ IF cmd = "apply_rules"
                  THEN Begin("apply", z) /\ ApplyEntry(<<"main_loop">>)
                  ELSE Begin("restore", z) /\ RestoreEntry(z, <<"main_loop">>)
       ELSE /\ pc' = "idle"
            /\ UNCHANGED <<stack, histVars, localVars, msg, idx, calls>>
    /\ UNCHANGED <<serverVars, fileVars, zones, lzResp, cmd, selected_zone_ids>>

\* ------------------------------------------------------- specifications

Rulesets == {NoRuleset} \cup {[exists |-> TRUE, rules |-> r] : r \in RuleLists}

RulesFiles == {[exists |-> FALSE, content |-> <<>>]}
                 \cup {[exists |-> TRUE, content |-> r] : r \in RuleLists}

InitProcess ==
    /\ pc = "idle"
    /\ stack = <<>>
    /\ zone_id = "z1"
    /\ waf_rules = <<>>
    /\ ruleset_id = None
    /\ backup_data = NoData
    /\ zones = <<>>
    /\ msg = ""
    /\ cmd = "help"
    /\ selection = <<>>
    /\ selected_zone_ids = <<>>
    /\ idx = 0
    /\ calls = <<>>
    /\ op = "none"
    /\ apiLog = <<>>
    /\ pre = [ruleset |-> custom["z1"], backup |-> backups["z1"]]
    /\ wrote = FALSE
    /\ prev = NoPrev
    /\ lzResp = NoResponse

SmallRulesets == {NoRuleset, [exists |-> TRUE, rules |-> <<"a">>]}

\* A fresh installation (no credential file, an empty backups directory), and the
\* functions of the module called one after another on the zones of a two-zone
\* account.  The first zone starts with any ruleset; the second, which is there to
\* show that the operations keep the zones apart, with one of two.
Init ==
    /\ account = <<"z1", "z2">>
    /\ custom \in [ZoneIds -> Rulesets]
    /\ custom["z2"] \in SmallRulesets
    /\ config = FALSE
    /\ rulesFile \in RulesFiles
    /\ backups = [z \in ZoneIds |-> NoFile]
    /\ InitProcess

Next ==
    \/ CallListZones
    \/ \E z \in Range(account) : CallGetRulesetId(z)
    \/ \E z \in Range(account) : CallBackup(z)
    \/ \E z \in Range(account) : CallRestore(z)
    \/ \E z \in Range(account) : CallApply(z)
    \/ SetupCredentials
    \/ DeleteCredentials
    \/ ListZonesStep
    \/ GetRulesetIdStep
    \/ BackupGetId
    \/ BackupFetch
    \/ RestoreGetId
    \/ RestorePut
    \/ ApplyGetId
    \/ ApplyPut

Spec == Init /\ [][Next]_vars

\* The front of an apply-rules / restore run, lines 183-200 and 204-207: the flags,
\* the zone listing and the selection, for every order of the account's zones and
\* every line typed.
InitSel ==
    /\ account \in ZoneOrders
    /\ custom = [z \in ZoneIds |-> NoRuleset]
    /\ config = FALSE
    /\ rulesFile = [exists |-> FALSE, content |-> <<>>]
    /\ backups = [z \in ZoneIds |-> NoFile]
    /\ InitProcess

NextSel ==
    \/ MainDispatch
    \/ ListZonesStep
    \/ MainSelect

SpecSel == InitSel /\ [][NextSel]_vars

\* Runs of the command line, one after another, on an account of up to two zones.
MainRulesFiles == {[exists |-> FALSE, content |-> <<>>], [exists |-> TRUE, content |-> <<"b">>]}

InitMain ==
    /\ account \in ZoneOrders
    /\ custom \in [ZoneIds -> SmallRulesets]
    /\ config = FALSE
    /\ rulesFile \in MainRulesFiles
    /\ backups = [z \in ZoneIds |-> NoFile]
    /\ InitProcess

NextMain ==
    \/ MainDispatch
    \/ ListZonesStep
    \/ MainSelect
    \/ MainLoop
    \/ BackupGetId
    \/ BackupFetch
    \/ RestoreGetId
    \/ RestorePut
    \/ ApplyGetId
    \/ ApplyPut

SpecMain == InitMain /\ [][NextMain]_vars

\* ---------------------------------------------------------- properties

\* The positions of the PUT requests in the history of the running call.
Puts == {i \in DOMAIN apiLog : apiLog[i].method = "PUT"}

\* The operation called last has ended (returned, or the process ended).
Ended == Stopped

Returned == pc = "idle"

LoadedRules == IF rulesFile.exists THEN rulesFile.content ELSE <<>>

BackedUpRules(z) == JsonLoad(backups[z]).result.rules

C2_ApplyReplaces ==
    (op = "apply" /\ LoadedRules # <<>>)
    => /\ Cardinality(Puts) <= 1
       /\ \A i \in DOMAIN apiLog : apiLog[i].method \in {"GET", "PUT"}
       /\ \A i \in Puts : /\ apiLog[i].body = LoadedRules
                          /\ apiLog[i].zone = zone_id
                          /\ apiLog[i].rid = CustomId(zone_id)
                          /\ i = Len(apiLog)
                          /\ apiLog[i].ok => custom[zone_id].rules = LoadedRules
       /\ (Ended /\ ruleset_id # None) => Cardinality(Puts) = 1

\* C2, witness: an accepted PUT has replaced the list a, b by the loaded list b, a.
C2_Witness ==
    /\ op = "apply" /\ Returned
    /\ LoadedRules = <<"b", "a">>
    /\ pre.ruleset.rules = <<"a", "b">>
    /\ \E i \in Puts : apiLog[i].ok
    /\ custom[zone_id].rules = <<"b", "a">>

\* C2 (as claimed): apply_waf_rules with a non-empty loaded rule list issues
\* exactly one PUT, whose body's rule list is the loaded list.
C2_Original ==
    (op = "apply" /\ LoadedRules # <<>> /\ Ended)
    => /\ Cardinality(Puts) = 1
       /\ \A i \in Puts : apiLog[i].body = LoadedRules

\* C3: apply_waf_rules with an empty loaded rule list (rules.json missing, or
\* holding an empty list) returns at once: no API request, no backup file written
\* or changed, no ruleset created or changed.
C3_EmptyRulesNoEffect ==
    (op = "apply" /\ (~rulesFile.exists \/ rulesFile.content = <<>>))
    => /\ Returned
       /\ stack = <<>>
       /\ apiLog = <<>>
       /\ ~wrote
       /\ backups[zone_id] = pre.backup
       /\ custom[zone_id] = pre.ruleset

\* C3, witness: apply was called with an empty list in rules.json, with credentials
\* and a ruleset in place, so that a backup and a PUT were possible.
C3_Witness ==
    /\ op = "apply"
    /\ rulesFile.exists /\ rulesFile.content = <<>>
    /\ config
    /\ custom[zone_id].exists /\ custom[zone_id].rules # <<>>

\* C4: restore_waf_rules on a zone with no backup file prints "No backup found"
\* and returns: no API request, the zone's rules and the backup files unchanged.
C4_RestoreNoBackup ==
    (op = "restore" /\ pre.backup = NoFile)
    => /\ Returned
       /\ stack = <<>>
       /\ msg = "No backup found"
       /\ apiLog = <<>>
       /\ ~wrote
       /\ backups[zone_id] = NoFile
       /\ custom[zone_id] = pre.ruleset

\* C4, witness: restore was called on a zone without a backup file while the
\* credentials and the zone's ruleset were in place.
C4_Witness ==
    /\ op = "restore" /\ pre.backup = NoFile
    /\ config
    /\ custom[zone_id].exists
    /\ \E z \in ZoneIds : backups[z] # NoFile

\* The operations that call the API, and where each stands before its first request.
CallsApi ==
    \/ op \in {"list_zones", "get_ruleset_id", "backup"}
    \/ op = "restore" /\ pre.backup # NoFile
    \/ op = "apply" /\ LoadedRules # <<>>

FirstRequest ==
    CASE op = "list_zones" -> "list_zones"
      [] op = "get_ruleset_id" -> "get_ruleset_id"
      [] op = "backup" -> "backup_get_id"
      [] op = "restore" -> "restore_get_id"
      [] op = "apply" -> "backup_get_id"
      [] OTHER -> "idle"

\* C6: without a credential file, an operation that calls the API never gets past
\* its first request: it sends no HTTP request, writes no backup file, never
\* returns, and ends with exit(1) and the "credentials not found" error.
C6_NoCredentialsFatal ==
    (~config /\ CallsApi)
    => /\ apiLog = <<>>
       /\ ~wrote
       /\ backups[zone_id] = pre.backup
       /\ custom[zone_id] = pre.ruleset
       /\ pc \in {FirstRequest, "exited"}
       /\ pc = "exited" =>
             msg = "Error: API credentials not found. Please run with --setup flag."

\* C6, witness: a restore with a backup file present has ended in exit(1) for
\* lack of credentials.
C6_Witness ==
    /\ ~config
    /\ op = "restore" /\ pre.backup # NoFile
    /\ pc = "exited"

\* C9 (as claimed): when apply_waf_rules has issued its PUT on a zone that had a
\* custom ruleset, the same call has written the zone's backup file before, and
\* the file holds the rule list the zone had just before the PUT.
C9_BackupBeforePut ==
    (op = "apply" /\ pre.ruleset.exists /\ Puts # {})
    => /\ wrote
       /\ BackedUpRules(zone_id) = pre.ruleset.rules

\* C10 (as claimed): apply_waf_rules with a non-empty rule list on a zone without
\* a custom-firewall ruleset issues a create-ruleset call, and the call returns
\* (after a PUT to the new ruleset, or after reporting that creation failed).
C10_CreatesRuleset ==
    (op = "apply" /\ Ended /\ LoadedRules # <<>> /\ config /\ ~pre.ruleset.exists)
    => /\ Returned
       /\ \E i \in DOMAIN apiLog : apiLog[i].method = "POST" /\ apiLog[i].path = "rulesets"

\* list_zones has returned to its caller.
ListZonesReturned == op = "list_zones" /\ pc \in {"idle", "main_select", "main_loop"}

Numeral == <<"1", "2", "3", "4", "5", "6", "7", "8", "9">>

\* C7: when list_zones has returned, then after a successful response of n zones
\* the mapping's keys are exactly "1" .. "n" and key i maps to the id of the i-th
\* zone of the response; after an unsuccessful response the mapping is empty.
C7_ZoneMappingKeys ==
    ListZonesReturned
    => IF lzResp.success
       THEN LET n == Len(lzResp.result)
            IN /\ n <= 9
               /\ DOMAIN zones = {<<Numeral[i]>> : i \in 1..n}
               /\ \A i \in 1..n : zones[<<Numeral[i]>>] = lzResp.result[i].id
       ELSE DOMAIN zones = {}

\* C7, witness: list_zones has returned the mapping of a two-zone response whose
\* first zone is z2.
C7_Witness ==
    /\ ListZonesReturned
    /\ lzResp.success
    /\ Len(lzResp.result) = 2
    /\ lzResp.result[1].id = "z2"
    /\ zones[<<"1">>] = "z2"

\* An entry without its leading and trailing blanks.
Trimmed(e) ==
    LET solid == {i \in DOMAIN e : e[i] # " "}
    IN IF solid = {} THEN <<>>
       ELSE SubSeq(e, CHOOSE i \in solid : \A j \in solid : i <= j,
                      CHOOSE i \in solid : \A j \in solid : i >= j)

\* C8: once the selection is made, the zone-id list holds, in input order, exactly
\* the zone ids of the entries of the typed line that, stripped of surrounding
\* blanks, are keys of the zone mapping; the other entries leave no trace.
C8_SelectionFilter ==
    (pc = "main_loop" /\ idx = 0 /\ selection # <<>>)
    => LET known == {j \in DOMAIN selection : Trimmed(selection[j]) \in DOMAIN zones}
       IN /\ \A j \in DOMAIN selection : "," \notin Range(selection[j])
          /\ Len(selected_zone_ids) = Cardinality(known)
          /\ \A j \in known :
                selected_zone_ids[Cardinality({i \in known : i <= j})]
                    = zones[Trimmed(selection[j])]

\* C8, witness: the line "2, 1" typed for a one-zone account: the entry "2" is
\* dropped, the entry " 1" selects the zone.
C8_Witness ==
    /\ pc = "main_loop" /\ idx = 0
    /\ selection = << <<"2">>, <<" ", "1">> >>
    /\ DOMAIN zones = {<<"1">>}
    /\ selected_zone_ids = <<zones[<<"1">>]>>

\* C5 (as claimed): when an apply-rules or restore run has ended, the operation
\* has been called once on each selected zone, in selection order.
C5_OncePerSelectedZone ==
    (cmd \in {"apply_rules", "restore"} /\ Ended)
    => calls = selected_zone_ids

====
